---- MODULE Spec2Model ----
(***************************************************************************)
(* Model of bzt-influx.py: the InfluxUploader reporter (buffer, send       *)
(* interval, POST with one retry) and the InfluxDatapointSerializer.       *)
(*                                                                         *)
(* Time is counted in whole seconds.  Response times are counted in units  *)
(* of 1/Unit second, so that int(1000 * x) and int(x) are exact.           *)
(* Debug-level log calls are left out; every other log call is recorded.   *)
(***************************************************************************)
EXTENDS Integers, Sequences, FiniteSets, TLC

VARIABLES
    phase,               \* lifecycle position of the host engine
    kpi_buffer,          \* self.kpi_buffer
    send_interval,       \* self.send_interval
    resend_timeout,      \* self.resend_timeout
    last_dispatch,       \* self.last_dispatch
    influx_url,          \* self.influx_url
    influx_application,  \* self.influx_application
    influx_measurement,  \* self.influx_measurement
    clock,               \* time.time()
    pc,                  \* position inside __send_kpi_data, "idle" outside
    data,                \* the argument of the running __send_kpi_data
    call,                \* history: the current / last handler call
    flushes,             \* history: the lists handed to __send_data so far
    appended,            \* history: number of data points appended so far
    late,                \* history: data points appended while a handler runs
    ser_in,              \* a data_buffer given to the serializer on its own
    ser_out              \* what get_kpi_body and __send_data make of ser_in

vars == <<phase, kpi_buffer, send_interval, resend_timeout, last_dispatch,
          influx_url, influx_application, influx_measurement, clock, pc,
          data, call, flushes, appended, late, ser_in, ser_out>>

----------------------------------------------------------------------------
(* Bounds of the model *)

MaxAppend == 3
MaxFlush == 2
Horizon == 6
SendIntervalSetting == 2
ResendTimeoutParam == 0
MaxPoints == 2

(* Program constants *)

DefaultSendInterval == 10
DefaultResendTimeout == 2
multi == 1000

Unit == 10 * multi
T0 == SendIntervalSetting + 1
MaxClock == T0 + Horizon

PyNone == "<None>"

(* The reporter's parameters in the host configuration: every option given, *)
(* and every way of leaving options out (parameters.get returns None)       *)
FullConfig == [application |-> "app", measurement |-> "jmeter", url |-> "http://influx/write"]
Configs == [application : {PyNone, "app"}, measurement : {PyNone, "jmeter"},
            url : {PyNone, "http://influx/write"}]

----------------------------------------------------------------------------
(* KPI sets and data points handed over by the aggregator *)

KpiOk ==
    [fail |-> 0, cnt |-> 5, avg |-> 2000, stdev |-> 0, lat |-> 1000,
     perc |-> [k \in {"90.0", "100.0"} |-> IF k = "90.0" THEN 3000 ELSE 5000],
     conc |-> 3, bytes |-> 1000, errors |-> <<>>]

KpiKo ==
    [fail |-> 1, cnt |-> 2, avg |-> 5021, stdev |-> 19, lat |-> 12345,
     perc |-> [k \in {"0.0", "90.0", "95.0", "99.0", "100.0"} |->
                  IF k = "0.0" THEN 4999 ELSE IF k = "100.0" THEN 25000 ELSE 5020],
     conc |-> 2, bytes |-> 7, errors |-> <<[msg |-> "Not Found", rc |-> "404", cnt |-> 1]>>]

KpiZero ==
    [fail |-> 0, cnt |-> 0, avg |-> 0, stdev |-> 0, lat |-> 0,
     perc |-> [k \in {} |-> 0],
     conc |-> 1, bytes |-> 0, errors |-> <<>>]

KpiSlow ==
    [fail |-> 2, cnt |-> 3, avg |-> 12999, stdev |-> 10007, lat |-> 9999,
     perc |-> [k \in {"95.0", "99.0"} |-> IF k = "95.0" THEN 12999 ELSE 29999],
     conc |-> 4, bytes |-> 10,
     errors |-> <<[msg |-> "Server Error", rc |-> "500", cnt |-> 1],
                  [msg |-> "Timeout", rc |-> "504", cnt |-> 1]>>]

(* DataPoint.CURRENT: label -> KPISet in iteration order; "" is the overall set *)
Currents ==
    { << <<"", KpiOk>>, <<"Login", KpiOk>> >>,
      << <<"", KpiKo>>, <<"Login", KpiOk>>, <<"Pay", KpiKo>> >> }

(* a window in which a label has no sample *)
CurrentsNoSample ==
    { << <<"", KpiOk>>, <<"Idle", KpiZero>> >> }

----------------------------------------------------------------------------
(* InfluxDatapointSerializer *)

(* Mutant: rounding to the nearest integer instead of truncating *)
PyInt_Round(n, d) == (2 * n + d) \div (2 * d)

(* int(x) of the non-negative value x = n / d *)
PyInt(n, d) == n \div d

RECURSIVE Gcd(_, _)
Gcd(a, b) == IF b = 0 THEN a ELSE Gcd(b, a % b)

FloatDiv(a, b) ==
    LET g == Gcd(a, b) IN IF g = 0 THEN <<0, 1>> ELSE <<a \div g, b \div g>>

(* str(int(m * item[PERCENTILES][key]) if key in item[PERCENTILES] else "0") *)
PercOr0(item, key, m) ==
    IF key \in DOMAIN item.perc THEN PyInt(m * item.perc[key], Unit) ELSE 0

(* Mutant: the status is taken from the sample count *)
txn_status_FromCount(item) == IF item.cnt > 0 THEN "ko" ELSE "ok"

(* txn_status="ok"; if item[KPISet.FAILURES]>0: txn_status="ko" *)
txn_status(item) == IF item.fail > 0 THEN "ko" ELSE "ok"

TxnString(item, time_stamp, label) ==
    [line |-> "summary",
     statut |-> txn_status(item),
     transaction |-> label,
     count |-> item.cnt,
     avg |-> PyInt(multi * item.avg, Unit),
     min |-> PercOr0(item, "0.0", multi),
     max |-> PercOr0(item, "100.0", multi),
     pct90 |-> PercOr0(item, "90.0", 1),
     pct95 |-> PercOr0(item, "95.0", 1),
     pct99 |-> PercOr0(item, "99.0", 1),
     maxAT |-> item.conc,
     countError |-> item.fail,
     txnsum |-> PyInt(multi * item.avg, Unit) * item.cnt,
     txnstddev |-> PyInt(multi * item.stdev, Unit),
     ltavg |-> PyInt(multi * item.lat, Unit),
     bytessum |-> item.bytes,
     bytesavg |-> FloatDiv(item.bytes, item.cnt),
     ts |-> time_stamp]

InternalString(item, time_stamp) ==
    [line |-> "internal", transaction |-> "internal",
     minAT |-> item.conc, maxAT |-> item.conc, meanAT |-> item.conc,
     startedT |-> item.conc, endedT |-> 0, ts |-> time_stamp]

ErrorString(error, time_stamp, label) ==
    [line |-> "error", transaction |-> label, responseMessage |-> error.msg,
     responseCode |-> error.rc, count |-> error.cnt, ts |-> time_stamp]

(* A result is [exc |-> the exception raised or "none", val |-> the value] *)
Ok(v) == [exc |-> "none", val |-> v]
Raise(e) == [exc |-> e, val |-> <<>>]

(* Mutant: the internal line is appended before the summary line *)
get_transaction_strings_InternalFirst(item, time_stamp, label) ==
    IF item.cnt = 0
    THEN Raise("ZeroDivisionError")
    ELSE Ok(<<InternalString(item, time_stamp), TxnString(item, time_stamp, label)>>
            \o [i \in 1..Len(item.errors) |-> ErrorString(item.errors[i], time_stamp, label)])

get_transaction_strings(item, time_stamp, label) ==
    IF item.cnt = 0
    THEN Raise("ZeroDivisionError")
    ELSE Ok(<<TxnString(item, time_stamp, label), InternalString(item, time_stamp)>>
            \o [i \in 1..Len(item.errors) |-> ErrorString(item.errors[i], time_stamp, label)])

RECURSIVE LabelLoop(_, _, _)
LabelLoop(cur, time_stamp, acc) ==
    IF cur = <<>> THEN Ok(acc)
    ELSE LET label == Head(cur)[1]
             kpi_set == Head(cur)[2]
         IN IF label = ""
            THEN LabelLoop(Tail(cur), time_stamp, acc)
            ELSE LET r == get_transaction_strings(kpi_set, time_stamp, label)
                 IN IF r.exc # "none" THEN r
                    ELSE LabelLoop(Tail(cur), time_stamp, acc \o r.val)

RECURSIVE DpointLoop(_, _)
DpointLoop(buf, acc) ==
    IF buf = <<>> THEN Ok(acc)
    ELSE LET r == LabelLoop(Head(buf).cur, Head(buf).ts * 1000, acc)
         IN IF r.exc # "none" THEN r ELSE DpointLoop(Tail(buf), r.val)

get_kpi_body(data_buffer) == DpointLoop(data_buffer, <<>>)

----------------------------------------------------------------------------
(* InfluxUploader *)

(* history: no handler has been called yet *)
NoCall ==
    [op |-> "none", now |-> 0, ld0 |-> 0, buf0 |-> <<>>, posts |-> <<>>,
     waits |-> 0, logs |-> <<>>, raised |-> "none", first |-> FALSE, ticked |-> FALSE]

(* Mutant: last_dispatch starts at the time of construction *)
Init_DispatchAtStart ==
    /\ phase = "new"
    /\ kpi_buffer = <<>>
    /\ send_interval = DefaultSendInterval
    /\ resend_timeout = DefaultResendTimeout
    /\ last_dispatch = T0
    /\ influx_url = "None"
    /\ influx_application = "None"
    /\ influx_measurement = "None"
    /\ clock = T0
    /\ pc = "idle"
    /\ data = <<>>
    /\ call = NoCall
    /\ flushes = <<>>
    /\ appended = 0
    /\ late = {}
    /\ ser_in = <<>>
    /\ ser_out = [done |-> FALSE]

Init ==
    /\ phase = "new"
    /\ kpi_buffer = <<>>
    /\ send_interval = DefaultSendInterval
    /\ resend_timeout = DefaultResendTimeout
    /\ last_dispatch = 0
    /\ influx_url = "None"
    /\ influx_application = "None"
    /\ influx_measurement = "None"
    /\ clock = T0
    /\ pc = "idle"
    /\ data = <<>>
    /\ call = NoCall
    /\ flushes = <<>>
    /\ appended = 0
    /\ late = {}
    /\ ser_in = <<>>
    /\ ser_out = [done |-> FALSE]

Ids(buf) == [i \in 1..Len(buf) |-> buf[i].ts]

(* first: this is the first call of check; ticked: check has been called *)
NewCall(o) ==
    [op |-> o, now |-> clock, ld0 |-> last_dispatch, buf0 |-> kpi_buffer,
     posts |-> <<>>, waits |-> 0, logs |-> <<>>, raised |-> "none",
     first |-> o = "check" /\ ~call.ticked, ticked |-> call.ticked \/ o = "check"]

Log(c, level, msg) == [c EXCEPT !.logs = Append(@, <<level, msg>>)]

(* What requests.post can do: answer with a status <= 204 ("ok"), answer    *)
(* with a status > 204 ("reject"), raise requests' ConnectionError ("conn") *)
(* or raise anything else ("other": ReadTimeout, MissingSchema, ...).       *)
(* Without a URL it raises MissingSchema before any network activity.       *)
Outcomes ==
    IF influx_url = PyNone THEN {"other"} ELSE {"ok", "reject", "conn", "other"}

(* Mutant: a flush that returns normally leaves kpi_buffer as it is *)
EndHandler_KeepBuffer(o, c, exc) ==
    /\ pc' = "idle"
    /\ data' = <<>>
    /\ kpi_buffer' = kpi_buffer
    /\ call' = IF o = "post_process" /\ exc # "none"
               THEN Log(c, "info", "Error in post process")
               ELSE IF o = "post_process" THEN c ELSE [c EXCEPT !.raised = exc]
    /\ phase' = CASE o = "check" -> phase
                  [] o = "post_process" -> "done"
                  [] o = "startup" -> "running"
                  [] o = "shutdown" -> "stopped"

(* Mutant: post_process has no try/except around the flush *)
EndHandler_NoExcept(o, c, exc) ==
    /\ pc' = "idle"
    /\ data' = <<>>
    /\ kpi_buffer' = IF o \in {"check", "post_process"} /\ exc = "none" THEN <<>>
                      ELSE kpi_buffer
    /\ call' = [c EXCEPT !.raised = exc]
    /\ phase' = CASE o = "check" -> phase
                  [] o = "post_process" -> "done"
                  [] o = "startup" -> "running"
                  [] o = "shutdown" -> "stopped"

(* The handler o returns, normally or with the exception exc *)
EndHandler(o, c, exc) ==
    /\ pc' = "idle"
    /\ data' = <<>>
    /\ CASE o = "check" ->
              /\ kpi_buffer' = IF exc = "none" THEN <<>> ELSE kpi_buffer
              /\ call' = [c EXCEPT !.raised = exc]
              /\ phase' = phase
         [] o = "post_process" ->
              /\ kpi_buffer' = IF exc = "none" THEN <<>> ELSE kpi_buffer
              /\ call' = IF exc = "none" THEN c
                         ELSE Log(c, "info", "Error in post process")
              /\ phase' = "done"
         [] o = "startup" ->
              /\ kpi_buffer' = kpi_buffer
              /\ call' = [c EXCEPT !.raised = exc]
              /\ phase' = "running"
         [] o = "shutdown" ->
              /\ kpi_buffer' = kpi_buffer
              /\ call' = [c EXCEPT !.raised = exc]
              /\ phase' = "stopped"

(* history: how the flush that is in flight ended *)
CloseFlush(o, end) ==
    IF o \in {"check", "post_process"}
    THEN flushes' = [flushes EXCEPT ![Len(flushes)].end = end]
    ELSE flushes' = flushes

(* requestBody of __send_data: one prefixed line per serialized item *)
RequestBody(buf) ==
    LET ser == get_kpi_body(buf)
    IN IF ser.exc # "none" THEN ser
       ELSE IF ser.val # <<>> /\ PyNone \in {influx_measurement, influx_application}
            THEN Raise("TypeError")
            ELSE Ok([i \in 1..Len(ser.val) |->
                       [measurement |-> influx_measurement,
                        application |-> influx_application,
                        item |-> ser.val[i]]])

send_data(o, c, buf) ==
    LET r == RequestBody(buf)
    IN IF r.exc # "none"
       THEN /\ EndHandler(o, c, r.exc)
            /\ UNCHANGED flushes
       ELSE /\ pc' = "post1"
            /\ data' = r.val
            /\ call' = c
            /\ flushes' = Append(flushes, [op |-> o, recs |-> Ids(buf), end |-> "open"])
            /\ UNCHANGED <<kpi_buffer, phase>>

EventLine(text) ==
    <<[line |-> "event", application |-> influx_application, text |-> text,
       ts |-> clock * 1000]>>

prepareWith(parameters) ==
    /\ phase = "new"
    /\ pc = "idle"
    /\ phase' = "prepared"
    /\ send_interval' = SendIntervalSetting
    /\ influx_application' = parameters.application
    /\ influx_measurement' = parameters.measurement
    /\ influx_url' = parameters.url
    /\ resend_timeout' = IF ResendTimeoutParam # 0 THEN ResendTimeoutParam
                         ELSE resend_timeout
    /\ UNCHANGED <<kpi_buffer, last_dispatch, clock, pc, data, call, flushes,
                   appended, late, ser_in, ser_out>>

prepare == prepareWith(FullConfig)

(* prepare with a required option missing from the configuration *)
prepare_incomplete == \E parameters \in Configs \ {FullConfig} : prepareWith(parameters)

marker(o, text) ==
    /\ pc = "idle"
    /\ clock + resend_timeout <= MaxClock
    /\ late' = {}
    /\ IF influx_application = PyNone
       THEN EndHandler(o, NewCall(o), "TypeError")
       ELSE /\ pc' = "post1"
            /\ data' = EventLine(text)
            /\ call' = NewCall(o)
            /\ UNCHANGED <<kpi_buffer, phase>>
    /\ UNCHANGED <<send_interval, resend_timeout, last_dispatch, influx_url,
                   influx_application, influx_measurement, clock, flushes, appended, ser_in, ser_out>>

startup ==
    /\ phase = "prepared"
    /\ marker("startup", "TestTitle started")

shutdown ==
    /\ phase = "running"
    /\ marker("shutdown", "TestTitle ended")

post_process ==
    /\ phase = "stopped"
    /\ pc = "idle"
    /\ clock + resend_timeout <= MaxClock
    /\ Len(flushes) < MaxFlush
    /\ late' = {}
    /\ send_data("post_process",
                 Log(Log(NewCall("post_process"), "info", "KPI bulk buffer len in post-proc"),
                     "info", "Sending remaining KPI data"),
                 kpi_buffer)
    /\ UNCHANGED <<send_interval, resend_timeout, last_dispatch, influx_url,
                   influx_application, influx_measurement, clock, appended, ser_in, ser_out>>

(* Mutant: last_dispatch is set only by a tick that sends the buffer *)
check_SetOnFlushOnly ==
    /\ phase = "running"
    /\ pc = "idle"
    /\ clock + 1 + resend_timeout <= MaxClock
    /\ Len(flushes) < MaxFlush
    /\ late' = {}
    /\ IF last_dispatch < clock - send_interval /\ Len(kpi_buffer) # 0
       THEN \E t2 \in {clock, clock + 1} :
               /\ clock' = t2
               /\ last_dispatch' = t2
               /\ send_data("check", NewCall("check"), kpi_buffer)
       ELSE /\ call' = NewCall("check")
            /\ UNCHANGED <<kpi_buffer, phase, pc, data, flushes, clock, last_dispatch>>
    /\ UNCHANGED <<send_interval, resend_timeout, influx_url, influx_application,
                   influx_measurement, appended, ser_in, ser_out>>

check ==
    /\ phase = "running"
    /\ pc = "idle"
    /\ clock + 1 + resend_timeout <= MaxClock
    /\ Len(flushes) < MaxFlush
    /\ late' = {}
    /\ IF last_dispatch < clock - send_interval
       THEN \E t2 \in {clock, clock + 1} :
               /\ clock' = t2
               /\ last_dispatch' = t2
               /\ IF Len(kpi_buffer) # 0
                  THEN send_data("check", NewCall("check"), kpi_buffer)
                  ELSE /\ call' = NewCall("check")
                       /\ UNCHANGED <<kpi_buffer, phase, pc, data, flushes>>
       ELSE /\ call' = NewCall("check")
            /\ UNCHANGED <<kpi_buffer, phase, pc, data, flushes, clock, last_dispatch>>
    /\ UNCHANGED <<send_interval, resend_timeout, influx_url, influx_application,
                   influx_measurement, appended, ser_in, ser_out>>

(* self.kpi_buffer.append(data) *)
AppendPoint(buf, dpoint) == Append(buf, dpoint)

aggregated_second_of(currents) ==
    /\ phase \in {"running", "stopped"}
    /\ appended < MaxAppend
    /\ \E cur \in currents :
          kpi_buffer' = AppendPoint(kpi_buffer, [ts |-> appended + 1, cur |-> cur])
    /\ appended' = appended + 1
    /\ UNCHANGED <<phase, send_interval, resend_timeout, last_dispatch, influx_url,
                   influx_application, influx_measurement, clock, pc, data, call,
                   flushes, ser_in, ser_out>>

aggregated_second ==
    /\ pc = "idle"
    /\ aggregated_second_of(Currents)
    /\ UNCHANGED late

(* a data point in which a label has sample count 0 *)
aggregated_second_no_sample ==
    /\ pc = "idle"
    /\ aggregated_second_of(CurrentsNoSample)
    /\ UNCHANGED late

(* Mutant: a status above 204 is handled like a connection error *)
AfterFirst_RetryRejected(out) ==
    CASE out = "ok" -> "return"
      [] out = "reject" -> "retry"
      [] out = "conn" -> "retry"
      [] out = "other" -> "raise"

(* Mutant: a connection error on the first post is not retried *)
AfterFirst_NoRetry(out) ==
    CASE out = "ok" -> "return"
      [] out = "reject" -> "log_return"
      [] out = "conn" -> "drop"
      [] out = "other" -> "raise"

(* What __send_kpi_data does with the outcome of its first requests.post:  *)
(* only requests' ConnectionError is caught                                *)
AfterFirst(out) ==
    CASE out = "ok" -> "return"
      [] out = "reject" -> "log_return"
      [] out = "conn" -> "retry"
      [] out = "other" -> "raise"

(* ... and with the outcome of the second requests.post *)
AfterRetry(out) ==
    CASE out = "ok" -> "return"
      [] out = "reject" -> "log_return"
      [] out = "conn" -> "drop"
      [] out = "other" -> "raise"

(* One requests.post of __send_kpi_data and the handling of its outcome *)
Post(retry) ==
    \E out \in Outcomes :
       LET c == [call EXCEPT !.posts = Append(@, [body |-> data, out |-> out])]
           todo == IF retry THEN AfterRetry(out) ELSE AfterFirst(out)
       IN CASE todo = "return" ->
                  /\ EndHandler(call.op, c, "none")
                  /\ CloseFlush(call.op, "delivered")
            [] todo = "log_return" ->
                  /\ EndHandler(call.op,
                                Log(c, "info", "Response code from Influx higher than 204"),
                                "none")
                  /\ CloseFlush(call.op, "rejected")
            [] todo = "retry" ->
                  /\ pc' = "sleep"
                  /\ call' = Log(c, "warning", "Failed to send data to Influx, will retry")
                  /\ UNCHANGED <<kpi_buffer, phase, data, flushes>>
            [] todo = "drop" ->
                  /\ EndHandler(call.op,
                                Log(c, "error", "Fatal error sending data. Datapoints dropped."),
                                "none")
                  /\ CloseFlush(call.op, "dropped")
            [] todo = "raise" ->
                  /\ EndHandler(call.op, c, "TransportError")
                  /\ CloseFlush(call.op, "raised")

(* First requests.post of __send_kpi_data *)
post1 ==
    /\ pc = "post1"
    /\ Post(FALSE)
    /\ UNCHANGED <<send_interval, resend_timeout, last_dispatch, influx_url,
                   influx_application, influx_measurement, clock, appended, late, ser_in, ser_out>>

(* time.sleep(self.resend_timeout) *)
sleep ==
    /\ pc = "sleep"
    /\ pc' = "post2"
    /\ clock' = clock + resend_timeout
    /\ call' = [call EXCEPT !.waits = @ + 1]
    /\ UNCHANGED <<phase, kpi_buffer, send_interval, resend_timeout, last_dispatch,
                   influx_url, influx_application, influx_measurement, data, flushes,
                   appended, late, ser_in, ser_out>>

(* Second requests.post of __send_kpi_data *)
post2 ==
    /\ pc = "post2"
    /\ Post(TRUE)
    /\ UNCHANGED <<send_interval, resend_timeout, last_dispatch, influx_url,
                   influx_application, influx_measurement, clock, appended, late, ser_in, ser_out>>

(* Time passes between two calls of the host *)
Advance ==
    /\ pc = "idle"
    /\ clock < MaxClock
    /\ clock' = clock + 1
    /\ UNCHANGED <<phase, kpi_buffer, send_interval, resend_timeout, last_dispatch,
                   influx_url, influx_application, influx_measurement, pc, data, call,
                   flushes, appended, late, ser_in, ser_out>>

(* aggregated_second called from another thread while a handler is inside  *)
(* __send_kpi_data                                                         *)
aggregated_second_during_send ==
    /\ pc # "idle"
    /\ aggregated_second_of(Currents)
    /\ late' = late \cup {appended + 1}

Next ==
    \/ prepare
    \/ startup
    \/ aggregated_second
    \/ check
    \/ shutdown
    \/ post_process
    \/ post1
    \/ sleep
    \/ post2
    \/ Advance

Spec == Init /\ [][Next]_vars

(* the host also calls aggregated_second from a second thread *)
NextPar == Next \/ aggregated_second_during_send

SpecPar == Init /\ [][NextPar]_vars

(* a label of a data point may have no sample *)
aggregated_second_any_sample ==
    /\ pc = "idle"
    /\ aggregated_second_of({ << <<"", KpiOk>>, <<"Login", KpiOk>> >> } \cup CurrentsNoSample)
    /\ UNCHANGED late

NextSer ==
    \/ prepare
    \/ startup
    \/ aggregated_second_any_sample
    \/ check
    \/ shutdown
    \/ post_process
    \/ post1
    \/ sleep
    \/ post2
    \/ Advance

SpecSer == Init /\ [][NextSer]_vars

(* the configuration may lack options and a label may have no sample *)
NextAny == Next \/ prepare_incomplete \/ aggregated_second_no_sample

SpecAny == Init /\ [][NextAny]_vars

----------------------------------------------------------------------------
(* The serializer on its own: __send_data applied once to a data_buffer of *)
(* at most MaxPoints data points, each with one or two labels in           *)
(* dictionary order and a KPI set per label                                *)

SerKpis == {KpiOk, KpiKo, KpiZero, KpiSlow}

LabelOrders == { <<"">>, <<"Login">>, <<"", "Login">>, <<"Login", "Pay">> }

SerCurrents ==
    UNION { { [i \in 1..Len(ls) |-> <<ls[i], f[i]>>] : f \in [1..Len(ls) -> SerKpis] } :
            ls \in LabelOrders }

InitSz ==
    /\ phase = "prepared"
    /\ kpi_buffer = <<>>
    /\ send_interval = SendIntervalSetting
    /\ resend_timeout = DefaultResendTimeout
    /\ last_dispatch = 0
    /\ influx_url = FullConfig.url
    /\ influx_application = FullConfig.application
    /\ influx_measurement = FullConfig.measurement
    /\ clock = T0
    /\ pc = "idle"
    /\ data = <<>>
    /\ call = NoCall
    /\ flushes = <<>>
    /\ appended = 0
    /\ late = {}
    /\ ser_in = <<>>
    /\ ser_out = [done |-> FALSE]

(* the data_buffer under construction gets one more data point *)
feed ==
    /\ ~ser_out.done
    /\ Len(ser_in) < MaxPoints
    /\ \E cur \in SerCurrents :
          ser_in' = AppendPoint(ser_in, [ts |-> Len(ser_in) + 1, cur |-> cur])
    /\ UNCHANGED <<phase, kpi_buffer, send_interval, resend_timeout, last_dispatch,
                   influx_url, influx_application, influx_measurement, clock, pc, data,
                   call, flushes, appended, late, ser_out>>

(* report_items = get_kpi_body(data_buffer), then the requestBody loop *)
serialize ==
    /\ ~ser_out.done
    /\ ser_out' = [done |-> TRUE, items |-> get_kpi_body(ser_in), body |-> RequestBody(ser_in)]
    /\ UNCHANGED <<phase, kpi_buffer, send_interval, resend_timeout, last_dispatch,
                   influx_url, influx_application, influx_measurement, clock, pc, data,
                   call, flushes, appended, late, ser_in>>

NextSz == feed \/ serialize

SpecSz == InitSz /\ [][NextSz]_vars

----------------------------------------------------------------------------
(* Vocabulary of the properties *)

FlushOps == {"check", "post_process"}
MarkerOps == {"startup", "shutdown"}

(* the handler o has run and is back in the host *)
Returned(o) == pc = "idle" /\ call.op = o

IdSet(seq) == {seq[i] : i \in DOMAIN seq}

HasLog(level, msg) == \E i \in DOMAIN call.logs : call.logs[i] = <<level, msg>>
HasLevel(level) == \E i \in DOMAIN call.logs : call.logs[i][1] = level

(* number of POST attempts and waits of the current / last handler call *)
Attempts == Len(call.posts)
Out(i) == call.posts[i].out

Configured == PyNone \notin {influx_url, influx_application, influx_measurement}

----------------------------------------------------------------------------
(* C1: for every tick(now) called with a non-empty buffer, a transmission  *)
(* occurs if and only if now - lastFlush >= flushInterval (boundary        *)
(* included); a qualifying tick performs exactly one transmission of the   *)
(* whole buffer and leaves the buffer empty.                               *)
C1_FlushIntervalIff ==
    (Returned("check") /\ call.buf0 # <<>>) =>
        LET qualifies == call.now - call.ld0 >= send_interval
        IN /\ (Attempts > 0) <=> qualifies
           /\ qualifies =>
                 /\ \A i \in DOMAIN call.posts :
                       call.posts[i].body = RequestBody(call.buf0).val
                 /\ Attempts = 2 => Out(1) = "conn"
                 /\ kpi_buffer = <<>>

W_C2_DroppedThenFlushedAgain ==
    \E i, j \in DOMAIN flushes :
        /\ i < j
        /\ flushes[i].end = "dropped"
        /\ flushes[i].recs # <<>>
        /\ flushes[j].recs # <<>>
        /\ flushes[j].end # "open"

(* C2: when the transport fails with a connectivity fault on the first     *)
(* attempt and on the retry of a flush, exactly 2 POST attempts of the     *)
(* same payload are made, an error-level dropped-data log is emitted, and  *)
(* the snapshot's records are neither in the buffer afterwards nor in any  *)
(* later flush.                                                            *)
C2_DroppedAfterTwoFaults ==
    /\ (call.op \in FlushOps /\ Attempts >= 2 /\ Out(1) = "conn" /\ Out(2) = "conn") =>
          /\ pc = "idle"
          /\ Attempts = 2
          /\ call.waits = 1
          /\ call.posts[1].body = call.posts[2].body
          /\ call.raised = "none"
          /\ HasLog("error", "Fatal error sending data. Datapoints dropped.")
          /\ IdSet(Ids(kpi_buffer)) \cap IdSet(Ids(call.buf0)) = {}
    /\ \A i \in DOMAIN flushes :
          flushes[i].end = "dropped" =>
             /\ IdSet(Ids(kpi_buffer)) \cap IdSet(flushes[i].recs) = {}
             /\ \A j \in DOMAIN flushes :
                   j > i => IdSet(flushes[j].recs) \cap IdSet(flushes[i].recs) = {}

(* C3: over any sequence of onWindowComplete, tick and flushAll calls and  *)
(* any transport outcomes, no record is contained in the snapshots of two  *)
(* different flushes.                                                      *)
C3_NoRecordInTwoFlushes ==
    \A i, j \in DOMAIN flushes :
        i < j => IdSet(flushes[i].recs) \cap IdSet(flushes[j].recs) = {}

(* C4: a transmission failure of any kind during a tick-initiated flush    *)
(* never propagates out of tick: tick always returns normally.             *)
C4_TickNeverRaises ==
    (Returned("check") /\ Attempts > 0) => call.raised = "none"

(* C5: a transmission failure that is not a connectivity fault is handled  *)
(* like a connectivity fault: the same payload is retried exactly once     *)
(* after retryDelay, and if the retry also fails the payload is dropped    *)
(* with an error log.                                                      *)
C5_OtherFailureRetriedOnce ==
    (Returned("check") /\ Attempts > 0 /\ Out(1) = "other") =>
        /\ Attempts = 2
        /\ call.waits = 1
        /\ call.posts[1].body = call.posts[2].body
        /\ Out(2) \in {"conn", "other"} =>
              HasLog("error", "Fatal error sending data. Datapoints dropped.")

(* C6: flushAll called with an empty buffer performs no network call.      *)
C6_EmptyFlushAllNoPost ==
    (call.op = "post_process" /\ call.buf0 = <<>>) => (Attempts = 0 /\ pc = "idle")

(* C7: a record passed to onWindowComplete while a flush is in progress is *)
(* not part of the in-flight snapshot and is still in the buffer when that *)
(* flush ends.                                                             *)
C7_LateRecordKept ==
    (pc = "idle" /\ call.op \in FlushOps /\ Attempts > 0) =>
        /\ late \cap IdSet(flushes[Len(flushes)].recs) = {}
        /\ late \subseteq IdSet(Ids(kpi_buffer))

Stamps(body) == [m \in DOMAIN body |-> body[m].item.ts]

NonDecreasing(seq) == \A m, n \in DOMAIN seq : m < n => seq[m] <= seq[n]

(* C8: records are transmitted in the order they were appended: within one *)
(* payload the records' lines follow append order, and every record of an  *)
(* earlier flush was appended before every record of a later flush.        *)
C8_AppendOrder ==
    /\ \A i \in DOMAIN flushes : NonDecreasing(flushes[i].recs)
    /\ \A i, j \in DOMAIN flushes :
          i < j => \A a \in IdSet(flushes[i].recs), b \in IdSet(flushes[j].recs) : a < b
    /\ call.op \in FlushOps =>
          \A k \in DOMAIN call.posts :
             /\ NonDecreasing(Stamps(call.posts[k].body))
             /\ IdSet(Stamps(call.posts[k].body)) = {1000 * r : r \in IdSet(Ids(call.buf0))}

RejectedPost == \E i \in DOMAIN call.posts : Out(i) = "reject"

W_C10_MarkerRetried ==
    /\ Returned("shutdown")
    /\ Attempts = 2
    /\ call.waits = 1

(* C10 as stated: notifyStart and notifyEnd each make exactly one POST     *)
(* attempt of their marker line, whatever the transport outcome, with no   *)
(* retry and no retry wait.                                                *)
C10_MarkerSingleAttempt ==
    (call.op \in MarkerOps /\ Attempts > 0) =>
        /\ pc = "idle"
        /\ Attempts = 1
        /\ call.waits = 0

(* C10, amended: notifyStart and notifyEnd post their marker line through  *)
(* the same sender as a flush: one attempt, and after a connectivity fault *)
(* on it one retry wait and exactly one retry of the same line; any other  *)
(* outcome of the first attempt ends the operation after that attempt.     *)
C10_MarkerRetriedOnce ==
    (call.op \in MarkerOps) =>
        /\ Attempts <= 2
        /\ call.waits <= 1
        /\ \A i \in DOMAIN call.posts :
              /\ Len(call.posts[i].body) = 1
              /\ call.posts[i].body[1].line = "event"
              /\ call.posts[i].body = call.posts[1].body
        /\ (pc = "idle" /\ Attempts > 0) =>
              /\ Attempts = 2 <=> Out(1) = "conn"
              /\ call.waits = Attempts - 1

----------------------------------------------------------------------------
(* how the serialization of the snapshot and the POSTs of the call ended *)
SerializationFailed == RequestBody(call.buf0).exc # "none"
TransmissionFailed == Attempts > 0 /\ Out(Attempts) = "other"

(* C11: flushAll (post_process) never raises to its caller: an error       *)
(* during the serialization or the transmission of the buffer is caught    *)
(* and logged, and post_process returns normally.                          *)
C11_FlushAllNeverRaises ==
    call.op = "post_process" =>
        /\ call.raised = "none"
        /\ (pc = "idle" /\ (SerializationFailed \/ TransmissionFailed)) =>
              /\ phase = "done"
              /\ HasLog("info", "Error in post process")

(* post_process has returned after the serializer raised on its buffer *)
W_C11_SerializationErrorCaught ==
    /\ Returned("post_process")
    /\ SerializationFailed
    /\ call.buf0 # <<>>

----------------------------------------------------------------------------
(* a flush of the snapshot call.buf0 was started by the last call and has  *)
(* ended: delivered, rejected, dropped, or ended by an exception           *)
FlushEnded ==
    /\ pc = "idle"
    /\ call.op \in FlushOps
    /\ Attempts > 0 \/ call.raised # "none" \/ HasLog("info", "Error in post process")

(* C12: the buffer is empty at startup and is reset after every flush,     *)
(* successful or abandoned: when a flush started by check or post_process  *)
(* ends (delivered, rejected, dropped after the failed retry, or ended by  *)
(* any other error), the buffer holds none of the records of its snapshot. *)
C12_BufferResetAfterEveryFlush ==
    /\ phase \in {"new", "prepared"} => kpi_buffer = <<>>
    /\ FlushEnded => IdSet(Ids(kpi_buffer)) \cap IdSet(Ids(call.buf0)) = {}

----------------------------------------------------------------------------
(* C13: if a required option (URL, application, measurement) is missing,   *)
(* startup fails with a configuration error and there is no network        *)
(* activity (no POST, the start marker included) before the failure, for   *)
(* each of the three options on its own.                                   *)
C13_MissingOptionFailsStartup ==
    (call.op = "startup" /\ ~Configured) =>
        /\ influx_url # PyNone => Attempts = 0
        /\ pc = "idle" => call.raised # "none"

----------------------------------------------------------------------------
(* The labelled records of a data_buffer, in the order of the data points  *)
(* and of the labels in each of them                                       *)
RECURSIVE LabelledOf(_, _)
LabelledOf(cur, ts) ==
    IF cur = <<>> THEN <<>>
    ELSE (IF Head(cur)[1] = "" THEN <<>>
          ELSE <<[label |-> Head(cur)[1], item |-> Head(cur)[2], ts |-> ts]>>)
         \o LabelledOf(Tail(cur), ts)

RECURSIVE Labelled(_)
Labelled(buf) ==
    IF buf = <<>> THEN <<>>
    ELSE LabelledOf(Head(buf).cur, Head(buf).ts) \o Labelled(Tail(buf))

(* the serializer has run on ser_in and returned its list of lines *)
Serialized == ser_out.done /\ ser_out.items.exc = "none"

SummaryLines == SelectSeq(ser_out.items.val, LAMBDA l : l.line = "summary")

(* C14: for every record with sampleCount = 0 the serialization succeeds   *)
(* without a division fault and the bytesavg field of the summary line is  *)
(* 0.                                                                      *)
C14_ZeroSampleSerializes ==
    (ser_out.done /\ \E i \in DOMAIN Labelled(ser_in) : Labelled(ser_in)[i].item.cnt = 0) =>
        /\ ser_out.items.exc = "none"
        /\ Len(SummaryLines) = Len(Labelled(ser_in))
        /\ \A i \in DOMAIN SummaryLines :
              SummaryLines[i].count = 0 => SummaryLines[i].bytesavg = <<0, 1>>

----------------------------------------------------------------------------
(* C15: flushAll (post_process) always runs to completion: under every     *)
(* transport behaviour it ends after at most 2 POST attempts and at most   *)
(* one retry wait, and when it returns every record that was in the buffer *)
(* at the call has been included in a transmission attempt.                *)
C15_FlushAllTransmitsAll ==
    call.op = "post_process" =>
        /\ Attempts <= 2
        /\ call.waits <= 1
        /\ pc = "idle" =>
              \A r \in IdSet(Ids(call.buf0)) :
                 \E k \in DOMAIN call.posts : 1000 * r \in IdSet(Stamps(call.posts[k].body))

----------------------------------------------------------------------------
(* C16: for every record, the status tag of its summary line is "ko"       *)
(* exactly when failureCount > 0 and "ok" exactly when failureCount = 0.   *)
C16_StatusTag ==
    Serialized =>
        /\ Len(SummaryLines) = Len(Labelled(ser_in))
        /\ \A i \in DOMAIN SummaryLines :
              LET failureCount == Labelled(ser_in)[i].item.fail
                  tag == SummaryLines[i].statut
              IN /\ tag \in {"ok", "ko"}
                 /\ tag = "ko" <=> failureCount > 0
                 /\ tag = "ok" <=> failureCount = 0

(* a buffer with a failing and a clean record has been serialized *)
W_C16_BothTags ==
    /\ Serialized
    /\ \E i, j \in DOMAIN SummaryLines :
          /\ SummaryLines[i].statut = "ko" /\ Labelled(ser_in)[i].item.fail > 0
          /\ SummaryLines[j].statut = "ok" /\ Labelled(ser_in)[j].item.fail = 0

----------------------------------------------------------------------------
(* v is the truncation to an integer of the non-negative value n / d *)
TruncationOf(v, n, d) == v * d <= n /\ n < (v + 1) * d

(* the field rendered for a percentile key: the truncation of factor times *)
(* its value in seconds, or 0 when the key is absent                       *)
PercentileField(v, item, key, factor) ==
    IF key \in DOMAIN item.perc THEN TruncationOf(v, factor * item.perc[key], Unit)
    ELSE v = 0

----------------------------------------------------------------------------
IsPrefix(a, b) == Len(a) <= Len(b) /\ SubSeq(b, 1, Len(a)) = a

(* since the last call, which made no POST, the buffer was only appended to *)
BufferUntouched == Attempts = 0 /\ IsPrefix(call.buf0, kpi_buffer)

(* C18 as stated: a tick that does not satisfy both conditions (interval   *)
(* elapsed and buffer non-empty) performs no transmission and leaves both  *)
(* the buffer and lastFlushTime unchanged; lastFlushTime is set to now     *)
(* only by a tick that takes and transmits the buffer.                     *)
C18_TickFrame ==
    Returned("check") =>
        LET elapsed == call.now - call.ld0 >= send_interval
        IN /\ ~(elapsed /\ call.buf0 # <<>>) =>
                 BufferUntouched /\ last_dispatch = call.ld0
           /\ last_dispatch # call.ld0 => call.buf0 # <<>> /\ Attempts > 0

(* C18, amended: a tick at which no more than the send interval has passed *)
(* since lastFlushTime performs no transmission and leaves the buffer and  *)
(* lastFlushTime unchanged; a tick at which more than the interval has     *)
(* passed sets lastFlushTime to the current time whether or not the buffer *)
(* is empty, and with an empty buffer it performs no transmission and      *)
(* leaves the buffer unchanged.                                            *)
C18_TickFrameOfTimer ==
    Returned("check") =>
        IF call.now - call.ld0 > send_interval
        THEN /\ call.now <= last_dispatch
             /\ last_dispatch <= clock
             /\ call.buf0 = <<>> => BufferUntouched
        ELSE /\ last_dispatch = call.ld0
             /\ BufferUntouched

(* a tick after the interval found the buffer empty and moved last_dispatch *)
W_C18_EmptyTickResetsTimer ==
    /\ Returned("check")
    /\ call.now - call.ld0 > send_interval
    /\ call.buf0 = <<>>
    /\ Attempts = 0
    /\ last_dispatch # call.ld0
    /\ last_dispatch >= call.now

----------------------------------------------------------------------------
(* What identifies a line: its kind, its transaction tag, its time stamp   *)
(* and, for an error line, the error it reports                            *)
LineKey(l) ==
    IF l.line = "error"
    THEN <<l.line, l.transaction, l.ts, l.responseMessage, l.responseCode, l.count>>
    ELSE <<l.line, l.transaction, l.ts>>

(* the block of a labelled record: summary, internal, one line per error *)
BlockOf(rec) ==
    << <<"summary", rec.label, 1000 * rec.ts>>, <<"internal", "internal", 1000 * rec.ts>> >>
    \o [e \in 1..Len(rec.item.errors) |->
           <<"error", rec.label, 1000 * rec.ts, rec.item.errors[e].msg,
             rec.item.errors[e].rc, rec.item.errors[e].cnt>>]

RECURSIVE BlocksOf(_)
BlocksOf(recs) == IF recs = <<>> THEN <<>> ELSE BlockOf(Head(recs)) \o BlocksOf(Tail(recs))

RECURSIVE LineCount(_)
LineCount(recs) ==
    IF recs = <<>> THEN 0 ELSE 2 + Len(Head(recs).item.errors) + LineCount(Tail(recs))

(* C19: for every input sequence the output of the serializer is the       *)
(* concatenation, in input order, of one block per labelled record, each   *)
(* block being one summary line, then one internal-concurrency line, then  *)
(* one error line per entry of the record's errors in their order (2 +     *)
(* number of errors lines per record); one flush sends all these lines,    *)
(* each prefixed with the measurement name and the application tag, in a   *)
(* single POST payload.                                                    *)
C19_BlocksInOrder ==
    Serialized =>
        LET items == ser_out.items.val
            payload == ser_out.body.val
        IN /\ Len(items) = LineCount(Labelled(ser_in))
           /\ [i \in DOMAIN items |-> LineKey(items[i])] = BlocksOf(Labelled(ser_in))
           /\ ser_out.body.exc = "none"
           /\ Len(payload) = Len(items)
           /\ \A i \in DOMAIN payload :
                 /\ payload[i].measurement = FullConfig.measurement
                 /\ payload[i].application = FullConfig.application
                 /\ payload[i].item = items[i]

(* two data points, the first with two labelled records of which one has  *)
(* two errors, have been serialized into 2 + 4 + 2 or more lines           *)
W_C19_SeveralBlocks ==
    /\ Serialized
    /\ Len(ser_in) = 2
    /\ Len(Labelled(ser_in)) >= 3
    /\ Len(Labelled(ser_in)[2].item.errors) = 2
    /\ Labelled(ser_in)[1].item.errors = <<>>
    /\ Len(ser_out.body.val) >= 8
    /\ ser_out.body.val[3].item.line = "summary"
    /\ ser_out.body.val[6].item.line = "error"
    /\ ser_out.body.val[7].item.line = "summary"
    /\ ser_out.body.val[7].item.ts = 2000

----------------------------------------------------------------------------
(* a flush started by check is on record *)
TickFlushed == \E i \in DOMAIN flushes : flushes[i].op = "check"

(* C20 as stated: because lastFlushTime is initialised to 0 rather than to *)
(* the startup time, the first tick that finds a non-empty buffer always   *)
(* transmits it, however little time has passed since startup or since the *)
(* record was appended; only from the second flush on does the flush       *)
(* interval separate consecutive transmissions.  (A tick that found a      *)
(* non-empty buffer while no tick has flushed yet is the first such tick   *)
(* or follows one that did not transmit.)                                  *)
C20_FirstNonEmptyTickTransmits ==
    (Returned("check") /\ call.buf0 # <<>>) => TickFlushed

(* the tick handed its snapshot to __send_data: a POST was attempted or an *)
(* exception left check                                                    *)
TickFlushStarted == Attempts > 0 \/ call.raised # "none"

(* C20, amended: lastFlushTime is initialised to 0, so the first tick      *)
(* after startup always passes the interval test, however little time has  *)
(* passed: it sets lastFlushTime to the current time and starts a flush of *)
(* the buffer if it is non-empty.  Every later tick, the first one that    *)
(* finds a non-empty buffer included, starts a flush of a non-empty buffer *)
(* exactly when more than the flush interval has passed since              *)
(* lastFlushTime, which is the time of the last tick that passed the       *)
(* interval test.                                                          *)
C20_FirstTickPassesIntervalTest ==
    Returned("check") =>
        /\ call.first =>
              /\ last_dispatch >= call.now
              /\ call.buf0 # <<>> => TickFlushStarted
        /\ (~call.first /\ call.buf0 # <<>>) =>
              (TickFlushStarted <=> call.now - call.ld0 > send_interval)
        /\ call.buf0 = <<>> => ~TickFlushStarted

(* the first tick found the buffer empty; a later tick, the first to find  *)
(* a record, came within the interval and transmitted nothing              *)
W_C20_FirstNonEmptyTickWaits ==
    /\ Returned("check")
    /\ ~call.first
    /\ call.buf0 # <<>>
    /\ call.ld0 > 0
    /\ call.now - call.ld0 <= send_interval
    /\ Attempts = 0
    /\ flushes = <<>>

====
